---- MODULE Spec2Model ----
(***************************************************************************)
(* rumqtt client: the Connection Supervisor loop of MqttClient::start, the *)
(* Client Handle operations (publish, publish_with_userdata, subscribe,    *)
(* drop) and the bounded Command Channel between them.                     *)
(*                                                                         *)
(* src/src/client/mod.rs is modelled statement by statement.  The Session  *)
(* (connection::Connection::start) and packet::gen_publish_packet live in  *)
(* modules that are not part of the sources at hand; they are modelled     *)
(* from sections 4.3 and 4.4 of the specification.                         *)
(***************************************************************************)
EXTENDS Integers, Sequences, FiniteSets, TLC

\* ------------------------------------------------------------------ bounds

\* Number of slots of the Command Channel in the model.  The program creates
\* the channel with mpsc::channel(10) (mod.rs:47); the model scales it down
\* so that a full channel is reached within MaxCalls calls.
ChanCap == 2

\* Total number of Client Handle calls (publish, publish_with_userdata,
\* subscribe, drop) in a run.
MaxCalls == 3

\* Total number of connection.start() calls of the Supervisor in a run.
MaxAttempts == 3

\* Longest payload a caller submits.
MaxPayloadLen == 2

\* Longest topic list a caller submits to subscribe.
MaxTopics == 2

\* The reconnection delay (seconds) of the retrying policies.
RetryDelay == 1

\* ------------------------------------------------------- program constants

\* let mut sleep_duration = Duration::from_secs(10);
DefaultSleepSecs == 10

\* ------------------------------------------------------------------- types

\* Option<T>
None == [some |-> FALSE, val |-> 0]
Some(v) == [some |-> TRUE, val |-> v]

\* enum ConnectCount { InitialConnect, ConnectedBefore(u32) }
InitialConnect == [tag |-> "InitialConnect", n |-> 0]
ConnectedBefore(n) == [tag |-> "ConnectedBefore", n |-> n]

\* enum ReconnectOptions { Never, AfterFirstSuccess(d), Always(d) }
Never == [kind |-> "Never", d |-> 0]
AfterFirstSuccess(d) == [kind |-> "AfterFirstSuccess", d |-> d]
Always(d) == [kind |-> "Always", d |-> d]

Delays == {RetryDelay}

ReconnectOptions ==
    {Never} \cup {AfterFirstSuccess(d) : d \in Delays} \cup {Always(d) : d \in Delays}

\* Duration::from_secs(d as u64): a Duration is represented by its number of
\* whole seconds.  The delay of a Configuration (RetryDelay) and the literal
\* 10 are far below 2^64, where the widening cast keeps the value.
DurationFromSecs(d) == d

\* enum Command { Mqtt((Packet, UserData)), Halt }
Mqtt(packet, userdata) == [kind |-> "Mqtt", packet |-> packet, userdata |-> userdata]
Halt == [kind |-> "Halt", packet |-> [type |-> "None"], userdata |-> None]

\* No command: what `pending` holds while no send is blocked.
NoCommand == [kind |-> "None", packet |-> [type |-> "None"], userdata |-> None]

\* ------------------------------------------------------------------ inputs

\* One payload of every length 0..MaxPayloadLen (byte i of a payload is i).
Payloads == {[i \in 1..n |-> i] : n \in 0..MaxPayloadLen}

\* The payloads submitted to publish_with_userdata: the longest one within
\* the size limit and the one just beyond it.
TaggedPayloads == {p \in Payloads : Len(p) >= MaxPayloadLen - 1}

PublishTopics == {"hello/rust"}
PublishQoS == {1}
UserTags == {"tag"}

\* The list of pairwise different (filter, guarantee) pairs whose prefixes,
\* the empty one included, are the lists submitted to subscribe.
TopicList == [i \in 1..MaxTopics |-> <<i, i % 3>>]

TopicLists == {SubSeq(TopicList, 1, n) : n \in 0..MaxTopics}

\* opts.max_packet_size values of the Configuration.
PacketSizeLimits == {MaxPayloadLen - 1}

\* ------------------------------------------------------------------- state

VARIABLES
    reconnect_config,   \* opts.reconnect, moved into the Supervisor thread
    max_packet_size,    \* MqttClient.max_packet_size
    pc,                 \* where the Supervisor thread is: "handshake" and
                        \* "dispatch" (inside connection.start()), "sleeping"
                        \* (inside thread::sleep), "stopped" (left the loop)
    sleep_duration,     \* the Supervisor's local of that name, in seconds
    sleeping_for,       \* argument of the thread::sleep call in progress
    attempts,           \* number of connection.start() calls so far
    connects,           \* number of handshakes that succeeded so far
    connections,        \* number of connection::Connection::new calls so far
    looping,            \* FALSE: a run ends with its MaxAttempts-th attempt;
                        \* TRUE: the Supervisor loops on, and attempts and
                        \* connects stop counting at MaxAttempts
    result,             \* what connection.start() returned in this iteration
    evaluated,          \* whether this iteration reached `match reconnect_config`
    commands,           \* content of the Command Channel, oldest first; every
                        \* entry is a Command and the ticket of its send
    tickets,            \* number of commands the channel has accepted
    received,           \* ticket, packet type and attempt of every command a
                        \* Session took off the channel, in that order
    handle,             \* the Client Handle: "alive", "blocked", "dropped"
    pending,            \* the command a blocked send is waiting to enqueue
    calls,              \* number of Client Handle calls so far
    op,                 \* the most recent Client Handle call: "publish",
                        \* "publish_with_userdata", "subscribe" or "drop"
    ret                 \* what the most recent Client Handle call returned

vars ==
    <<reconnect_config, max_packet_size, looping, pc, sleep_duration,
      sleeping_for, attempts, connects, connections, result, evaluated,
      commands, tickets, received, handle, pending, calls, op, ret>>

supervisor_vars ==
    <<pc, sleep_duration, sleeping_for, attempts, connects, connections, result,
      evaluated>>

client_vars == <<handle, pending, calls, op, ret>>

config_vars == <<reconnect_config, max_packet_size, looping>>

\* Result<(), (ConnectError, ConnectCount)> of connection.start()
NoResult == [tag |-> "None", e |-> "", count |-> InitialConnect]
Ok == [tag |-> "Ok", e |-> "", count |-> InitialConnect]
Err(e, count) == [tag |-> "Err", e |-> e, count |-> count]

\* ---------------------------------------------------------- packet building

\* packet::gen_publish_packet(topic, qos, None, false, false, payload)
GenPublishPacket(topic, qos, pid, dup, retain, payload) ==
    [type |-> "Publish", dup |-> dup, qos |-> qos, retain |-> retain,
     topic_name |-> topic, pid |-> pid, payload |-> payload]

\* Fault variant of SubTopics: the list is collected back to front.
SubTopicsReversed(topics) ==
    [i \in 1..Len(topics) |->
        [topic_path |-> topics[Len(topics) + 1 - i][1],
         qos |-> topics[Len(topics) + 1 - i][2]]]

\* topics.into_iter().map(|t| SubscribeTopic{topic_path: t.0.into(), qos: t.1}).collect()
SubTopics(topics) ==
    [i \in 1..Len(topics) |-> [topic_path |-> topics[i][1], qos |-> topics[i][2]]]

\* Subscribe {pid: PacketIdentifier::zero(), topics: sub_topics}
SubscribePacket(topics) ==
    [type |-> "Subscribe", pid |-> 0, topics |-> SubTopics(topics)]

\* --------------------------------------------------------- Command Channel

\* Fault variant of RxDropped: the channel stays open after the thread ended.
RxDroppedNever == FALSE

\* The consumer end lives in `connection`, which the Supervisor thread's
\* closure owns: it is dropped, and the channel closed, when the loop is left.
RxDropped == pc = "stopped"

\* Fault variant of ChanPush: the channel hands out the newest entry first.
ChanPushFront(queue, entry) == <<entry>> \o queue

\* What the channel holds after it accepted `entry`.
ChanPush(queue, entry) == Append(queue, entry)

\* The channel has a free slot.
ChanHasRoom(queue) == Len(queue) < ChanCap

\* ------------------------------------------------------------- Init

\* The state in which MqttClient::start returns, with the Supervisor thread
\* at its first connection.start(): Connection::new has run once.
Start(loops) ==
    /\ reconnect_config \in ReconnectOptions
    /\ max_packet_size \in PacketSizeLimits
    /\ looping = loops
    /\ connections = 1
    /\ pc = "handshake"
    /\ sleep_duration = DurationFromSecs(DefaultSleepSecs)
    /\ sleeping_for = 0
    /\ attempts = 1
    /\ connects = 0
    /\ result = NoResult
    /\ evaluated = FALSE
    /\ commands = <<>>
    /\ tickets = 0
    /\ received = <<>>
    /\ handle = "alive"
    /\ pending = NoCommand
    /\ calls = 0
    /\ op = "none"
    /\ ret = "None"

Init == Start(FALSE)

\* A counter of the model after one more event: it counts up to MaxAttempts.
Count(n) == IF n < MaxAttempts THEN n + 1 ELSE n

\* ------------------------------------------------- Supervisor (mod.rs:57-75)

\* Fault variant of IsHalt: the Halt arm is missing.
IsHaltNever(e) == FALSE

\* match e { ConnectError::Halt => break 'reconnect, _ => () }
IsHalt(e) == e = "Halt"

\* Fault variant of SucceededBefore: the guard is missing.
SucceededBeforeAlways(connection_count) == TRUE

\* the guard of the first AfterFirstSuccess arm:
\* if connection_count != ConnectCount::InitialConnect
SucceededBefore(connection_count) == connection_count # InitialConnect

\* Fault variant of PolicyDecision: the Never arm does not break.
PolicyDecisionNeverRetries(config, connection_count, duration) ==
    CASE config.kind = "Never" ->
            [break |-> FALSE, sleep_duration |-> duration]
      [] config.kind = "AfterFirstSuccess" /\ SucceededBefore(connection_count) ->
            [break |-> FALSE, sleep_duration |-> DurationFromSecs(config.d)]
      [] config.kind = "AfterFirstSuccess" /\ ~SucceededBefore(connection_count) ->
            [break |-> TRUE, sleep_duration |-> duration]
      [] config.kind = "Always" ->
            [break |-> FALSE, sleep_duration |-> DurationFromSecs(config.d)]

\* Fault variant of PolicyDecision: the retrying AfterFirstSuccess arm does
\* not assign sleep_duration.
PolicyDecisionKeepsDuration(config, connection_count, duration) ==
    CASE config.kind = "Never" ->
            [break |-> TRUE, sleep_duration |-> duration]
      [] config.kind = "AfterFirstSuccess" /\ SucceededBefore(connection_count) ->
            [break |-> FALSE, sleep_duration |-> duration]
      [] config.kind = "AfterFirstSuccess" /\ ~SucceededBefore(connection_count) ->
            [break |-> TRUE, sleep_duration |-> duration]
      [] config.kind = "Always" ->
            [break |-> FALSE, sleep_duration |-> DurationFromSecs(config.d)]

\* Fault variant of PolicyDecision: the Always arm carries the guard of the
\* AfterFirstSuccess arm.
PolicyDecisionAlwaysGuarded(config, connection_count, duration) ==
    CASE config.kind = "Never" ->
            [break |-> TRUE, sleep_duration |-> duration]
      [] config.kind = "AfterFirstSuccess" /\ SucceededBefore(connection_count) ->
            [break |-> FALSE, sleep_duration |-> DurationFromSecs(config.d)]
      [] config.kind = "AfterFirstSuccess" /\ ~SucceededBefore(connection_count) ->
            [break |-> TRUE, sleep_duration |-> duration]
      [] config.kind = "Always" /\ SucceededBefore(connection_count) ->
            [break |-> FALSE, sleep_duration |-> DurationFromSecs(config.d)]
      [] config.kind = "Always" /\ ~SucceededBefore(connection_count) ->
            [break |-> TRUE, sleep_duration |-> duration]

\* match reconnect_config { ... }: whether the loop is left and the value
\* sleep_duration has afterwards.
PolicyDecision(config, connection_count, duration) ==
    CASE config.kind = "Never" ->
            [break |-> TRUE, sleep_duration |-> duration]
      [] config.kind = "AfterFirstSuccess" /\ SucceededBefore(connection_count) ->
            [break |-> FALSE, sleep_duration |-> DurationFromSecs(config.d)]
      [] config.kind = "AfterFirstSuccess" /\ ~SucceededBefore(connection_count) ->
            [break |-> TRUE, sleep_duration |-> duration]
      [] config.kind = "Always" ->
            [break |-> FALSE, sleep_duration |-> DurationFromSecs(config.d)]

\* Fault variant of LoopBody: a run that returns without an error resets
\* sleep_duration to the default.
LoopBodyResetsOnOk(res, config, duration) ==
    IF res.tag = "Ok"
    THEN [break |-> FALSE, evaluated |-> FALSE,
          sleep_duration |-> DurationFromSecs(DefaultSleepSecs)]
    ELSE IF IsHalt(res.e)
    THEN [break |-> TRUE, evaluated |-> FALSE, sleep_duration |-> duration]
    ELSE LET dec == PolicyDecision(config, res.count, duration)
         IN [break |-> dec.break, evaluated |-> TRUE,
             sleep_duration |-> dec.sleep_duration]

\* Fault variant of LoopBody: a run that returns without an error ends the
\* loop.
LoopBodyStopsOnOk(res, config, duration) ==
    IF res.tag = "Ok"
    THEN [break |-> TRUE, evaluated |-> FALSE, sleep_duration |-> duration]
    ELSE IF IsHalt(res.e)
    THEN [break |-> TRUE, evaluated |-> FALSE, sleep_duration |-> duration]
    ELSE LET dec == PolicyDecision(config, res.count, duration)
         IN [break |-> dec.break, evaluated |-> TRUE,
             sleep_duration |-> dec.sleep_duration]

\* The body of 'reconnect from the return of connection.start() to the break
\* or to the call of thread::sleep: `res` is what connection.start() returned.
LoopBody(res, config, duration) ==
    IF res.tag = "Ok"
    THEN [break |-> FALSE, evaluated |-> FALSE, sleep_duration |-> duration]
    ELSE IF IsHalt(res.e)
    THEN [break |-> TRUE, evaluated |-> FALSE, sleep_duration |-> duration]
    ELSE LET dec == PolicyDecision(config, res.count, duration)
         IN [break |-> dec.break, evaluated |-> TRUE,
             sleep_duration |-> dec.sleep_duration]

\* connection.start() returns `res` and the Supervisor runs the loop body:
\* it leaves the loop (the thread ends, `connection` and with it the consumer
\* end of the Command Channel are dropped) or it calls
\* thread::sleep(sleep_duration).
SessionReturns(res) ==
    LET out == LoopBody(res, reconnect_config, sleep_duration)
    IN /\ result' = res
       /\ evaluated' = out.evaluated
       /\ sleep_duration' = out.sleep_duration
       /\ IF out.break
          THEN /\ pc' = "stopped"
               /\ sleeping_for' = 0
          ELSE /\ looping \/ attempts < MaxAttempts
               /\ pc' = "sleeping"
               /\ sleeping_for' = out.sleep_duration
       /\ UNCHANGED <<attempts, connects, connections>>

\* Fault variant of AfterReturn: the channel is emptied whenever a Session
\* run returns, as if every attempt had a channel of its own.
AfterReturnEmptied(queue, stopped) == <<>>

\* What the channel holds after connection.start() returned, when `queue` is
\* what the Session left in it: dropping the consumer end discards it.
AfterReturn(queue, stopped) == IF stopped THEN <<>> ELSE queue

\* Fault variant of SleepEnds: the next attempt is also started while the
\* Session of the current one is in its dispatch loop.
SleepEndsOverlapping ==
    /\ pc \in {"sleeping", "dispatch"}
    /\ looping \/ attempts < MaxAttempts
    /\ pc' = "handshake"
    /\ attempts' = Count(attempts)
    /\ result' = NoResult
    /\ evaluated' = FALSE
    /\ sleeping_for' = 0
    /\ UNCHANGED <<sleep_duration, connects, connections>>
    /\ UNCHANGED <<commands, tickets, received>>
    /\ UNCHANGED client_vars
    /\ UNCHANGED config_vars

\* Fault variant of SleepEnds: every attempt constructs a Connection.
SleepEndsConstructs ==
    /\ pc = "sleeping"
    /\ pc' = "handshake"
    /\ attempts' = Count(attempts)
    /\ connections' = Count(connections)
    /\ result' = NoResult
    /\ evaluated' = FALSE
    /\ sleeping_for' = 0
    /\ UNCHANGED <<sleep_duration, connects>>
    /\ UNCHANGED <<commands, tickets, received>>
    /\ UNCHANGED client_vars
    /\ UNCHANGED config_vars

\* thread::sleep returns; the loop starts over with connection.start().
SleepEnds ==
    /\ pc = "sleeping"
    /\ pc' = "handshake"
    /\ attempts' = Count(attempts)
    /\ result' = NoResult
    /\ evaluated' = FALSE
    /\ sleeping_for' = 0
    /\ UNCHANGED <<sleep_duration, connects, connections>>
    /\ UNCHANGED <<commands, tickets, received>>
    /\ UNCHANGED client_vars
    /\ UNCHANGED config_vars

\* ---------------------------------------- Session (connection.start())

\* The Connection Attempt Count a Session reports.
ConnectionCount == IF connects = 0 THEN InitialConnect ELSE ConnectedBefore(connects)

\* The handshake fails (timeout, rejection, transport error).
HandshakeFails ==
    /\ pc = "handshake"
    /\ SessionReturns(Err("Handshake", ConnectionCount))
    /\ commands' = AfterReturn(commands, pc' = "stopped")
    /\ UNCHANGED <<tickets, received>>
    /\ UNCHANGED client_vars
    /\ UNCHANGED config_vars

\* CONNACK arrives: the Session enters its dispatch loop.
HandshakeSucceeds ==
    /\ pc = "handshake"
    /\ pc' = "dispatch"
    /\ connects' = Count(connects)
    /\ UNCHANGED <<sleep_duration, sleeping_for, attempts, connections, result,
                   evaluated>>
    /\ UNCHANGED <<commands, tickets, received>>
    /\ UNCHANGED client_vars
    /\ UNCHANGED config_vars

\* The dispatch loop takes the next command, a packet, and executes it.
SessionExecutes ==
    /\ pc = "dispatch"
    /\ commands # <<>>
    /\ Head(commands).cmd.kind = "Mqtt"
    /\ received' =
        Append(received,
               [ticket |-> Head(commands).ticket,
                type |-> Head(commands).cmd.packet.type,
                attempt |-> attempts])
    /\ commands' = Tail(commands)
    /\ UNCHANGED tickets
    /\ UNCHANGED supervisor_vars
    /\ UNCHANGED client_vars
    /\ UNCHANGED config_vars

\* The dispatch loop takes Command::Halt and returns the Halt error.
SessionHalts ==
    /\ pc = "dispatch"
    /\ commands # <<>>
    /\ Head(commands).cmd.kind = "Halt"
    /\ received' =
        Append(received,
               [ticket |-> Head(commands).ticket,
                type |-> Head(commands).cmd.packet.type,
                attempt |-> attempts])
    /\ SessionReturns(Err("Halt", ConnectionCount))
    /\ commands' = AfterReturn(Tail(commands), pc' = "stopped")
    /\ UNCHANGED tickets
    /\ UNCHANGED client_vars
    /\ UNCHANGED config_vars

\* A transport read or write fails, or the ping response is missing.
TransportFails ==
    /\ pc = "dispatch"
    /\ SessionReturns(Err("Transport", ConnectionCount))
    /\ commands' = AfterReturn(commands, pc' = "stopped")
    /\ UNCHANGED <<tickets, received>>
    /\ UNCHANGED client_vars
    /\ UNCHANGED config_vars

\* The dispatch loop ends without an error.
SessionReturnsOk ==
    /\ pc = "dispatch"
    /\ SessionReturns(Ok)
    /\ commands' = AfterReturn(commands, pc' = "stopped")
    /\ UNCHANGED <<tickets, received>>
    /\ UNCHANGED client_vars
    /\ UNCHANGED config_vars

\* ------------------------------------------- Client Handle (mod.rs:82-133)

\* Fault variant of PayloadTooLarge: the limit is off by one.
PayloadTooLargeOffByOne(payload_len, limit) == payload_len > limit + 1

\* Fault variant of PayloadTooLarge: a payload of exactly the limit is refused.
PayloadTooLargeAtLimit(payload_len, limit) == payload_len >= limit

\* if payload_len > self.max_packet_size
PayloadTooLarge(payload_len, limit) == payload_len > limit

\* Fault variant of NoTopics: the check is missing.
NoTopicsNever(topics) == FALSE

\* if topics.len() == 0
NoTopics(topics) == Len(topics) = 0

\* tx.send(cmd).wait(): the send fails when the consumer end is gone,
\* completes when the channel has room, and otherwise blocks the caller
\* until one of the two happens.  `ok` and `err` are what the call returns
\* in the two cases and `after` is the handle's state afterwards.
Send(cmd, ok, err, after) ==
    IF RxDropped
    THEN /\ ret' = err
         /\ handle' = after
         /\ UNCHANGED <<commands, tickets, pending>>
    ELSE IF ChanHasRoom(commands)
    THEN /\ commands' = ChanPush(commands, [cmd |-> cmd, ticket |-> tickets + 1])
         /\ tickets' = tickets + 1
         /\ ret' = ok
         /\ handle' = after
         /\ UNCHANGED pending
    ELSE /\ handle' = "blocked"
         /\ pending' = cmd
         /\ ret' = "Pending"
         /\ UNCHANGED <<commands, tickets>>

\* fn _publish(&mut self, topic, qos, payload, userdata)
PublishInner(caller, topic, qos, payload, userdata) ==
    LET payload_len == Len(payload)
    IN /\ handle = "alive"
       /\ calls < MaxCalls
       /\ calls' = calls + 1
       /\ op' = caller
       /\ IF PayloadTooLarge(payload_len, max_packet_size)
          THEN /\ ret' = "PacketSizeLimitExceeded"
               /\ UNCHANGED <<commands, tickets, handle, pending>>
          ELSE LET publish == GenPublishPacket(topic, qos, None, FALSE, FALSE, payload)
               IN Send(Mqtt(publish, userdata), "Ok", "SendError", "alive")
       /\ UNCHANGED received
       /\ UNCHANGED supervisor_vars
       /\ UNCHANGED config_vars

\* pub fn publish(&mut self, topic, qos, payload)
Publish(topic, qos, payload) ==
    PublishInner("publish", topic, qos, payload, None)

\* pub fn publish_with_userdata(&mut self, topic, qos, payload, userdata)
PublishWithUserdata(topic, qos, payload, userdata) ==
    PublishInner("publish_with_userdata", topic, qos, payload, Some(userdata))

\* pub fn subscribe(&mut self, topics)
Subscribe(topics) ==
    /\ handle = "alive"
    /\ calls < MaxCalls
    /\ calls' = calls + 1
    /\ op' = "subscribe"
    /\ IF NoTopics(topics)
       THEN /\ ret' = "ZeroSubscriptions"
            /\ UNCHANGED <<commands, tickets, handle, pending>>
       ELSE Send(Mqtt(SubscribePacket(topics), None), "Ok", "SendError", "alive")
    /\ UNCHANGED received
    /\ UNCHANGED supervisor_vars
    /\ UNCHANGED config_vars

\* Fault variant of Drop: the handle can still be used after it sent Halt.
DropKeepsHandle ==
    /\ handle = "alive"
    /\ calls < MaxCalls
    /\ calls' = calls + 1
    /\ op' = "drop"
    /\ Send(Halt, "Unit", "Unit", "alive")
    /\ UNCHANGED received
    /\ UNCHANGED supervisor_vars
    /\ UNCHANGED config_vars

\* Fault variant of Drop: Halt is sent with try_send, which does not wait for
\* a free slot.
DropTrySend ==
    /\ handle = "alive"
    /\ calls < MaxCalls
    /\ calls' = calls + 1
    /\ op' = "drop"
    /\ IF ~RxDropped /\ ChanHasRoom(commands)
       THEN Send(Halt, "Unit", "Unit", "dropped")
       ELSE /\ ret' = "Unit"
            /\ handle' = "dropped"
            /\ UNCHANGED <<commands, tickets, pending>>
    /\ UNCHANGED received
    /\ UNCHANGED supervisor_vars
    /\ UNCHANGED config_vars

\* impl Drop for MqttClient: let _ = tx.send(Command::Halt).wait();
Drop ==
    /\ handle = "alive"
    /\ calls < MaxCalls
    /\ calls' = calls + 1
    /\ op' = "drop"
    /\ Send(Halt, "Unit", "Unit", "dropped")
    /\ UNCHANGED received
    /\ UNCHANGED supervisor_vars
    /\ UNCHANGED config_vars

\* The call whose send is blocked is drop.
BlockedInDrop == op = "drop"

\* A blocked send completes: the Session has taken a command off the channel.
SendCompletes ==
    /\ handle = "blocked"
    /\ ~RxDropped
    /\ ChanHasRoom(commands)
    /\ commands' = ChanPush(commands, [cmd |-> pending, ticket |-> tickets + 1])
    /\ tickets' = tickets + 1
    /\ ret' = IF BlockedInDrop THEN "Unit" ELSE "Ok"
    /\ handle' = IF BlockedInDrop THEN "dropped" ELSE "alive"
    /\ pending' = NoCommand
    /\ UNCHANGED <<calls, op, received>>
    /\ UNCHANGED supervisor_vars
    /\ UNCHANGED config_vars

\* A blocked send fails: the consumer end of the channel has been dropped.
SendFails ==
    /\ handle = "blocked"
    /\ RxDropped
    /\ ret' = IF BlockedInDrop THEN "Unit" ELSE "SendError"
    /\ handle' = IF BlockedInDrop THEN "dropped" ELSE "alive"
    /\ pending' = NoCommand
    /\ UNCHANGED <<calls, op, commands, tickets, received>>
    /\ UNCHANGED supervisor_vars
    /\ UNCHANGED config_vars

\* ------------------------------------------------------------ specification

PublishCall ==
    \E topic \in PublishTopics, qos \in PublishQoS, payload \in Payloads :
        Publish(topic, qos, payload)

PublishWithUserdataCall ==
    \E topic \in PublishTopics, qos \in PublishQoS, payload \in TaggedPayloads,
       userdata \in UserTags :
        PublishWithUserdata(topic, qos, payload, userdata)

SubscribeCall == \E topics \in TopicLists : Subscribe(topics)

Next ==
    \/ HandshakeFails
    \/ HandshakeSucceeds
    \/ SessionExecutes
    \/ SessionHalts
    \/ TransportFails
    \/ SessionReturnsOk
    \/ SleepEnds
    \/ PublishCall
    \/ PublishWithUserdataCall
    \/ SubscribeCall
    \/ Drop
    \/ SendCompletes
    \/ SendFails

Spec == Init /\ [][Next]_vars

\* The scheduling the liveness properties rest on.  The Supervisor thread
\* runs: thread::sleep returns, and the handshake of a Session ends (it
\* waits for CONNACK with a timeout).  A Session that stays in its dispatch
\* loop takes the commands the channel holds.  A blocked send is woken when
\* the channel has room or its consumer end is dropped.  Nothing is assumed
\* of the network (a handshake may fail every time, a transport may fail
\* before the Session has taken a command) nor of the application (it may
\* make no call).
Fairness ==
    /\ WF_vars(SleepEnds)
    /\ WF_vars(HandshakeFails \/ HandshakeSucceeds)
    /\ WF_vars(SessionExecutes \/ SessionHalts)
    /\ WF_vars(SendCompletes)
    /\ WF_vars(SendFails)

\* The runs in which the Supervisor may loop for ever.
FairSpec == Start(TRUE) /\ [][Next]_vars /\ Fairness

\* ================================================================ properties

\* A step in which connection.start() returns; result' is what it returned.
ReturnStep == pc \in {"handshake", "dispatch"} /\ pc' \in {"sleeping", "stopped"}

\* A step of the Supervisor out of thread::sleep is the start of one more
\* attempt, and nothing else.
SleepThenAttempt ==
    (pc = "sleeping" /\ supervisor_vars' # supervisor_vars)
        => (pc' = "handshake" /\ attempts' = attempts + 1
            /\ sleep_duration' = sleep_duration)

ConnectCounts == {InitialConnect} \cup {ConnectedBefore(n) : n \in 1..MaxAttempts}

\* ---------------------------------------------------------------------- C1

\* C1 as stated: under the policy Never exactly one connection attempt is
\* made, whatever the first Session run returns (an error or no error).
C1_NeverOneAttempt == reconnect_config = Never => attempts = 1

\* C1, amended: under the policy Never every Session run that returns an error
\* (handshake, transport or Halt) stops the Supervisor, and an attempt other
\* than the first one is started only after a Session run that returned
\* without an error.
C1_NeverStopsOnError ==
    /\ [][(reconnect_config = Never /\ ReturnStep /\ result'.tag = "Err")
            => (pc' = "stopped" /\ attempts' = attempts)]_vars
    /\ [][(reconnect_config = Never /\ attempts' # attempts)
            => (result.tag = "Ok" /\ pc = "sleeping")]_vars
    /\ [][(reconnect_config = Never /\ pc = "stopped")
            => (pc' = "stopped" /\ attempts' = attempts)]_vars

\* Never: the first Session run failed in its dispatch loop and the
\* Supervisor has stopped after that one attempt.
C1_Witness ==
    /\ reconnect_config = Never
    /\ pc = "stopped"
    /\ attempts = 1
    /\ result = Err("Transport", ConnectedBefore(1))

\* ---------------------------------------------------------------------- C2

\* C2: under RetryAfterFirstSuccess(d), once the first attempt has failed at
\* the handshake (count InitialConnect) the Supervisor is stopped after that
\* one attempt: it is not sleeping and no other attempt has been started.
C2_FirstFailureStops ==
    (/\ reconnect_config.kind = "AfterFirstSuccess"
     /\ result.tag = "Err"
     /\ result.e = "Handshake"
     /\ result.count = InitialConnect)
        => (pc = "stopped" /\ attempts = 1 /\ sleeping_for = 0 /\ evaluated)

C2_Witness ==
    /\ reconnect_config.kind = "AfterFirstSuccess"
    /\ result = Err("Handshake", InitialConnect)
    /\ pc = "stopped"

\* ---------------------------------------------------------------------- C3

\* C3: under RetryAfterFirstSuccess(d), every Session run that returns an
\* error other than Halt with a count ConnectedBefore(n) puts the Supervisor
\* into a sleep of exactly d, and the sleep ends in one more attempt.
C3_RetryAfterSuccess ==
    /\ [][(/\ reconnect_config.kind = "AfterFirstSuccess"
           /\ ReturnStep
           /\ result'.tag = "Err"
           /\ result'.e # "Halt"
           /\ result'.count.tag = "ConnectedBefore")
            => (/\ pc' = "sleeping"
                /\ sleeping_for' = reconnect_config.d
                /\ sleep_duration' = reconnect_config.d
                /\ attempts' = attempts)]_vars
    /\ [][reconnect_config.kind = "AfterFirstSuccess" => SleepThenAttempt]_vars

\* RetryAfterFirstSuccess: the first attempt connected, the second one has
\* failed at the handshake and the Supervisor sleeps d.
C3_Witness ==
    /\ reconnect_config.kind = "AfterFirstSuccess"
    /\ attempts = 2
    /\ pc = "sleeping"
    /\ result = Err("Handshake", ConnectedBefore(1))
    /\ sleeping_for = reconnect_config.d

\* ---------------------------------------------------------------------- C4

\* C4: under AlwaysRetry(d), every Session run that returns an error other
\* than Halt, at the first attempt or a later one and with any count, puts
\* the Supervisor into a sleep of exactly d, and the sleep ends in one more
\* attempt.
C4_AlwaysRetries ==
    /\ [][(/\ reconnect_config.kind = "Always"
           /\ ReturnStep
           /\ result'.tag = "Err"
           /\ result'.e # "Halt")
            => (/\ pc' = "sleeping"
                /\ sleeping_for' = reconnect_config.d
                /\ sleep_duration' = reconnect_config.d
                /\ attempts' = attempts)]_vars
    /\ [][reconnect_config.kind = "Always" => SleepThenAttempt]_vars

\* AlwaysRetry: the second attempt in a row has failed at the handshake, no
\* connection has succeeded yet, and the Supervisor sleeps d again.
C4_Witness ==
    /\ reconnect_config.kind = "Always"
    /\ attempts = 2
    /\ pc = "sleeping"
    /\ result = Err("Handshake", InitialConnect)
    /\ sleeping_for = reconnect_config.d

\* ---------------------------------------------------------------------- C5

\* C5: a Session run that reports Halt stops the Supervisor under every
\* policy and every count, without an evaluation of the policy, without a
\* sleep and without a change of sleep_duration; once stopped, the
\* Supervisor stays stopped and starts no attempt.
C5_HaltStops ==
    /\ [][(ReturnStep /\ result'.tag = "Err" /\ result'.e = "Halt")
            => (/\ pc' = "stopped"
                /\ ~evaluated'
                /\ sleeping_for' = 0
                /\ sleep_duration' = sleep_duration
                /\ attempts' = attempts)]_vars
    /\ [][pc = "stopped" => UNCHANGED supervisor_vars]_vars
    /\ \A config \in ReconnectOptions, count \in ConnectCounts, d \in Delays :
          LET out == LoopBody(Err("Halt", count), config, d)
          IN out.break /\ ~out.evaluated /\ out.sleep_duration = d

\* AlwaysRetry, which retries after every other error: a Session of the second
\* attempt took Halt off the channel and the Supervisor has stopped.
C5_Witness ==
    /\ reconnect_config.kind = "Always"
    /\ attempts = 2
    /\ result.tag = "Err"
    /\ result.e = "Halt"
    /\ pc = "stopped"
    /\ handle = "dropped"

\* ------------------------------------------------- Client Handle properties

\* The command publish (tag None) or publish_with_userdata sends.
PublishCommand(topic, qos, payload, userdata) ==
    Mqtt(GenPublishPacket(topic, qos, None, FALSE, FALSE, payload), userdata)

\* The step is a Client Handle call.
CallStep == calls' = calls + 1

\* A property P(payload, cmd) of every step that is a call of publish or of
\* publish_with_userdata with a payload `payload` for which Sel(payload)
\* holds; `cmd` is the command the call builds.
EveryPublish(Sel(_), P(_, _)) ==
    CallStep =>
        \A payload \in {p \in Payloads : Sel(p)}, topic \in PublishTopics,
           qos \in PublishQoS :
            /\ Publish(topic, qos, payload)
                  => P(payload, PublishCommand(topic, qos, payload, None))
            /\ \A userdata \in UserTags :
                  PublishWithUserdata(topic, qos, payload, userdata)
                      => P(payload, PublishCommand(topic, qos, payload, Some(userdata)))

Oversized(payload) == Len(payload) > max_packet_size

WithinLimit(payload) == Len(payload) <= max_packet_size

\* The step leaves the Command Channel and the handle as they are: nothing
\* is enqueued and the caller is not blocked.
NothingEnqueued ==
    /\ commands' = commands
    /\ tickets' = tickets
    /\ pending' = pending
    /\ handle' = handle

\* The step enqueues `cmd`, and nothing else, behind what the channel holds.
EnqueuedOne(cmd) ==
    /\ tickets' = tickets + 1
    /\ Len(commands') = Len(commands) + 1
    /\ SubSeq(commands', 1, Len(commands)) = commands
    /\ commands'[Len(commands')] = [cmd |-> cmd, ticket |-> tickets']

\* The step is the end of a blocked send of a packet of type `type`.
BlockedSendEnds(type) ==
    handle = "blocked" /\ handle' # "blocked" /\ pending.packet.type = type

\* What a call that sends `cmd` does, from the call to its return: with the
\* consumer end gone it returns the channel-closed error and enqueues
\* nothing; otherwise it enqueues exactly `cmd` and returns Ok, at once when
\* the channel has room and else after it was blocked.
SendsOneOrFails(cmd) ==
    IF pc = "stopped"
    THEN ret' = "SendError" /\ handle' = "alive" /\ commands' = commands /\ tickets' = tickets
    ELSE IF handle = "alive" /\ Len(commands) >= ChanCap
    THEN handle' = "blocked" /\ pending' = cmd /\ ret' = "Pending"
         /\ commands' = commands /\ tickets' = tickets
    ELSE ret' = "Ok" /\ handle' = "alive" /\ EnqueuedOne(cmd)

\* ---------------------------------------------------------------------- C6

\* C6: a publish with a payload longer than max_packet_size returns
\* PacketSizeLimitExceeded, enqueues nothing and does not block, in every
\* state of the channel; and no command in the channel, or waiting for a
\* slot of it, carries a payload longer than max_packet_size.
C6_OversizeRejected ==
    /\ [][LET Refused(payload, cmd) ==
                    ret' = "PacketSizeLimitExceeded" /\ NothingEnqueued
            IN EveryPublish(Oversized, Refused)]_vars
    /\ [](\A i \in 1..Len(commands) :
            commands[i].cmd.packet.type = "Publish"
                => Len(commands[i].cmd.packet.payload) <= max_packet_size)
    /\ [](pending.packet.type = "Publish"
            => Len(pending.packet.payload) <= max_packet_size)

\* An oversized publish has been refused while the channel was full.
C6_Witness ==
    /\ op = "publish"
    /\ ret = "PacketSizeLimitExceeded"
    /\ Len(commands) = ChanCap
    /\ handle = "alive"

\* ---------------------------------------------------------------------- C7

\* C7 as stated: every publish with a payload of at most max_packet_size
\* bytes succeeds in enqueuing exactly one command (a call that finds the
\* channel full does so when its blocked send ends).
C7_ValidPublishEnqueues ==
    /\ [][LET Succeeds(payload, cmd) ==
                    \/ ret' = "Ok" /\ EnqueuedOne(cmd)
                    \/ ret' = "Pending" /\ handle' = "blocked" /\ pending' = cmd
            IN EveryPublish(WithinLimit, Succeeds)]_vars
    /\ [][BlockedSendEnds("Publish") => (ret' = "Ok" /\ EnqueuedOne(pending))]_vars

\* C7, amended: a publish with a payload of at most max_packet_size bytes,
\* the limit included, enqueues exactly one command, the publish packet with
\* that payload, and returns Ok as long as the consumer end of the channel
\* exists; once the Supervisor has stopped it returns the channel-closed
\* error and enqueues nothing.
C7_ValidPublishEnqueuesWhileOpen ==
    /\ [][LET Sends(payload, cmd) ==
                    SendsOneOrFails(cmd) /\ cmd.packet.payload = payload
            IN EveryPublish(WithinLimit, Sends)]_vars
    /\ [][BlockedSendEnds("Publish") => SendsOneOrFails(pending)]_vars

\* A publish with a payload of exactly max_packet_size bytes has returned Ok
\* and its command is the newest one in the channel.
C7_Witness ==
    /\ op = "publish"
    /\ ret = "Ok"
    /\ commands # <<>>
    /\ commands[Len(commands)].ticket = tickets
    /\ commands[Len(commands)].cmd.packet.type = "Publish"
    /\ Len(commands[Len(commands)].cmd.packet.payload) = max_packet_size
    /\ max_packet_size > 0

\* ---------------------------------------------------------------------- C8

\* C8: subscribe with an empty topic list returns ZeroSubscriptions,
\* enqueues nothing and does not block, in every state of the channel; no
\* Subscribe command without topics is in the channel or waiting for a slot.
C8_EmptySubscribeRejected ==
    /\ [][(CallStep /\ Subscribe(<<>>))
            => (ret' = "ZeroSubscriptions" /\ NothingEnqueued)]_vars
    /\ [](\A i \in 1..Len(commands) :
            commands[i].cmd.packet.type = "Subscribe"
                => Len(commands[i].cmd.packet.topics) > 0)
    /\ [](pending.packet.type = "Subscribe" => Len(pending.packet.topics) > 0)

\* An empty subscribe has been refused while the channel was full.
C8_Witness ==
    /\ op = "subscribe"
    /\ ret = "ZeroSubscriptions"
    /\ Len(commands) = ChanCap
    /\ handle = "alive"

\* ---------------------------------------------------------------------- C9

\* The Subscribe command that carries exactly the pairs of `topics`, in order.
CarriesAll(cmd, topics) ==
    /\ cmd.kind = "Mqtt"
    /\ cmd.packet.type = "Subscribe"
    /\ Len(cmd.packet.topics) = Len(topics)
    /\ \A i \in 1..Len(topics) :
          /\ cmd.packet.topics[i].topic_path = topics[i][1]
          /\ cmd.packet.topics[i].qos = topics[i][2]

\* A property P(topics, cmd) of every step that is a call of subscribe with
\* a non-empty list `topics`; `cmd` is the newest command of the channel
\* after the step, or the command the caller is blocked with.
EverySubscribe(P(_, _)) ==
    CallStep =>
        \A topics \in TopicLists \ {<<>>} :
            Subscribe(topics)
                => P(topics, IF handle' = "blocked" THEN pending'
                             ELSE IF commands' = <<>> THEN NoCommand
                             ELSE commands'[Len(commands')].cmd)

\* C9 as stated: every subscribe with a non-empty list of n pairs enqueues
\* exactly one Subscribe command, which carries the n pairs in order (a call
\* that finds the channel full does so when its blocked send ends).
C9_SubscribeEnqueuesOne ==
    /\ [][LET Succeeds(topics, cmd) ==
                    /\ CarriesAll(cmd, topics)
                    /\ \/ ret' = "Ok" /\ EnqueuedOne(cmd)
                       \/ ret' = "Pending" /\ handle' = "blocked"
            IN EverySubscribe(Succeeds)]_vars
    /\ [][BlockedSendEnds("Subscribe") => (ret' = "Ok" /\ EnqueuedOne(pending))]_vars

\* C9, amended: a subscribe with a non-empty list of n pairs never enqueues
\* more than one command; as long as the consumer end of the channel exists
\* it enqueues exactly one Subscribe command, which carries all n pairs in
\* the order they were submitted, and returns Ok; once the Supervisor has
\* stopped it returns the channel-closed error and enqueues nothing.
C9_SubscribeEnqueuesOneWhileOpen ==
    /\ [][LET Sends(topics, cmd) ==
                    IF pc = "stopped"
                    THEN ret' = "SendError" /\ NothingEnqueued
                    ELSE CarriesAll(cmd, topics) /\ SendsOneOrFails(cmd)
            IN EverySubscribe(Sends)]_vars
    /\ [][BlockedSendEnds("Subscribe") => SendsOneOrFails(pending)]_vars
    /\ [][tickets' <= tickets + 1 /\ Len(commands') <= Len(commands) + 1]_vars

\* A subscribe with two pairs has returned Ok and the newest command in the
\* channel carries both, the first pair first.
C9_Witness ==
    /\ op = "subscribe"
    /\ ret = "Ok"
    /\ commands # <<>>
    /\ commands[Len(commands)].ticket = tickets
    /\ CarriesAll(commands[Len(commands)].cmd, <<TopicList[1], TopicList[2]>>)
    /\ TopicList[1] # TopicList[2]

\* --------------------------------------------------------------------- C10

\* C10: the Sessions take the commands off the channel in the order in
\* which the Client Handle enqueued them, whatever the calls were and in
\* whichever attempts the Sessions ran: the i-th command taken is the i-th
\* command enqueued, and the channel holds the following ones in order.
C10_Fifo ==
    /\ \A i \in 1..Len(received) : received[i].ticket = i
    /\ \A i \in 1..Len(commands) : commands[i].ticket = Len(received) + i
    /\ \A i \in 1..Len(received) - 1 : received[i].attempt <= received[i + 1].attempt

\* A publish and a subscribe, enqueued in this order, have been taken in
\* this order by the Sessions of two different attempts.
C10_Witness ==
    /\ Len(received) >= 2
    /\ received[1].type = "Publish"
    /\ received[2].type = "Subscribe"
    /\ received[1].attempt < received[2].attempt

\* --------------------------------------------------------------------- C11

\* The packet type `received` records for Command::Halt.
HaltType == Halt.packet.type

\* C11: Halt is enqueued only by the destruction of the handle and at most
\* once; it is the last command the channel accepts (nothing is enqueued
\* behind it) and the last command a Session takes: once a Session has taken
\* it, the Supervisor is stopped and no command is left to execute.
C11_HaltLast ==
    /\ \A i \in 1..Len(commands) :
          commands[i].cmd.kind = "Halt"
              => (/\ i = Len(commands)
                  /\ commands[i].ticket = tickets
                  /\ handle = "dropped"
                  /\ op = "drop")
    /\ \A i \in 1..Len(received) :
          received[i].type = HaltType
              => (/\ i = Len(received)
                  /\ received[i].ticket = tickets
                  /\ commands = <<>>
                  /\ pc = "stopped"
                  /\ handle = "dropped")
    /\ pending.kind = "Halt" => (handle = "blocked" /\ op = "drop")
    /\ handle = "dropped" => (op = "drop" /\ pending = NoCommand)

\* The handle was destroyed after a publish: a Session has taken the publish
\* and then Halt, and the Supervisor has stopped.
C11_Witness ==
    /\ Len(received) = 2
    /\ received[1].type = "Publish"
    /\ received[2].type = HaltType
    /\ tickets = 2
    /\ pc = "stopped"

\* --------------------------------------------------------------------- C12

\* The errors of the checks made before a command is built.
ValidationErrors == {"PacketSizeLimitExceeded", "ZeroSubscriptions"}

\* C12: while the consumer end of the channel exists, every command the
\* channel accepted has been taken by a Session or is still in the channel,
\* in the order of acceptance; nothing leaves the channel while no Session is
\* in its dispatch loop (a handshake in progress, a failed attempt, the
\* sleep), and a Session takes the oldest command; the channel never holds
\* more than ChanCap commands; a call that finds the channel full changes
\* nothing in it and blocks with its command, which is enqueued when the
\* blocked send completes.
C12_NothingDropped ==
    /\ [](pc # "stopped"
            => (/\ tickets = Len(received) + Len(commands)
                /\ \A i \in 1..Len(commands) : commands[i].ticket = Len(received) + i))
    /\ [](Len(commands) <= ChanCap)
    /\ [][(pc # "dispatch" /\ pc' # "stopped")
            => (/\ received' = received
                /\ Len(commands') >= Len(commands)
                /\ SubSeq(commands', 1, Len(commands)) = commands)]_vars
    /\ [][(received' # received)
            => (/\ pc = "dispatch"
                /\ commands # <<>>
                /\ Len(received') = Len(received) + 1
                /\ received'[Len(received')].ticket = Head(commands).ticket
                /\ received'[Len(received')].type = Head(commands).cmd.packet.type)]_vars
    /\ [][(/\ CallStep
           /\ pc # "stopped"
           /\ Len(commands) = ChanCap
           /\ ret' \notin ValidationErrors)
            => (/\ commands' = commands
                /\ tickets' = tickets
                /\ handle' = "blocked"
                /\ pending'.kind \in {"Mqtt", "Halt"})]_vars
    /\ [][(handle = "blocked" /\ handle' = "blocked") => pending' = pending]_vars
    /\ [][(handle = "blocked" /\ handle' # "blocked" /\ pc # "stopped")
            => EnqueuedOne(pending)]_vars

\* No Session has been live yet (no handshake has succeeded), the first
\* attempt has failed and the Supervisor sleeps: the commands accepted so far
\* fill the channel, and the caller of one more is blocked.
C12_Witness ==
    /\ pc = "sleeping"
    /\ connects = 0
    /\ result.tag = "Err"
    /\ Len(commands) = ChanCap
    /\ tickets = ChanCap
    /\ handle = "blocked"
    /\ pending.kind = "Mqtt"

\* --------------------------------------------------------------------- C13

\* C13: once the Supervisor is stopped, every publish, publish_with_userdata
\* and subscribe that passes its validation returns the channel-closed error
\* and enqueues nothing; the channel stays empty and no Session takes a
\* command any more.
C13_ClosedChannelFails ==
    /\ [][LET Fails(input, cmd) ==
                    pc = "stopped" => (ret' = "SendError" /\ NothingEnqueued)
            IN EveryPublish(WithinLimit, Fails) /\ EverySubscribe(Fails)]_vars
    /\ [][pc = "stopped"
            => (/\ pc' = "stopped"
                /\ received' = received
                /\ commands' = commands
                /\ tickets' = tickets)]_vars
    /\ [](pc = "stopped" => commands = <<>>)

\* The channel has never accepted a command (so no call was ever blocked),
\* the Supervisor has stopped, and a subscribe with topics has returned the
\* channel-closed error.
C13_Witness ==
    /\ pc = "stopped"
    /\ tickets = 0
    /\ op = "subscribe"
    /\ ret = "SendError"
    /\ handle = "alive"

\* --------------------------------------------------------------------- C14

\* C14: the destruction of the handle returns normally in every case.  With
\* the consumer end gone it changes nothing but the handle; otherwise it
\* enqueues exactly one Halt, at once when the channel has room and else
\* when its blocked send completes; a blocked send that ends because the
\* consumer end was dropped in the meantime enqueues nothing.
C14_DropBestEffort ==
    /\ [][(CallStep /\ Drop)
            => IF pc = "stopped"
               THEN /\ handle' = "dropped"
                    /\ ret' = "Unit"
                    /\ UNCHANGED <<commands, tickets, received, pending>>
                    /\ UNCHANGED supervisor_vars
               ELSE IF Len(commands) >= ChanCap
               THEN /\ handle' = "blocked"
                    /\ pending' = Halt
                    /\ UNCHANGED <<commands, tickets, received>>
               ELSE /\ handle' = "dropped"
                    /\ ret' = "Unit"
                    /\ EnqueuedOne(Halt)]_vars
    /\ [][(handle = "blocked" /\ handle' # "blocked" /\ pending = Halt)
            => (/\ handle' = "dropped"
                /\ ret' = "Unit"
                /\ IF pc = "stopped"
                   THEN UNCHANGED <<commands, tickets, received>>
                   ELSE EnqueuedOne(Halt))]_vars
    /\ [][handle = "dropped" => UNCHANGED <<handle, tickets, calls, ret>>]_vars

\* The Supervisor stopped before the channel had accepted any command, and
\* the handle has been destroyed since: the failed send of Halt was ignored.
C14_Witness ==
    /\ handle = "dropped"
    /\ op = "drop"
    /\ ret = "Unit"
    /\ tickets = 0
    /\ pc = "stopped"
    /\ result.e = "Handshake"

\* --------------------------------------------------------------------- C15

\* C15: an attempt is started only out of the sleep that follows the return
\* of the previous Session run; connection.start() is in progress exactly
\* while no result of the current iteration exists; and only the Session of
\* the current attempt, in its dispatch loop, takes commands off the channel.
C15_OneSessionAtATime ==
    /\ [][attempts' # attempts
            => (/\ pc = "sleeping"
                /\ result.tag \in {"Ok", "Err"}
                /\ pc' = "handshake"
                /\ attempts' = attempts + 1)]_vars
    /\ [](pc \in {"handshake", "dispatch"} <=> result = NoResult)
    /\ [][received' # received
            => (/\ pc = "dispatch"
                /\ received'[Len(received')].attempt = attempts)]_vars

\* The Sessions of two attempts have both been in their dispatch loops and
\* each has taken a command, the second after the first had returned.
C15_Witness ==
    /\ attempts = 2
    /\ connects = 2
    /\ pc = "dispatch"
    /\ Len(received) = 2
    /\ received[1].attempt = 1
    /\ received[2].attempt = 2

\* --------------------------------------------------------------------- C16

\* No attempt reaches the dispatch loop: every handshake fails.
NoSessionLive == [](pc # "dispatch")

\* C16, in the case it names (the handle is destroyed while no Session is
\* live and the attempts keep failing at the handshake): once the handle is
\* destroyed, the Supervisor eventually stops.
C16_DropStops == NoSessionLive => ((handle = "dropped") ~> (pc = "stopped"))

\* --------------------------------------------------------------------- C17

\* C17, in the case it names (the Supervisor is retrying attempts that never
\* reach the dispatch loop): a call that is blocked on the full channel
\* eventually returns.
C17_BlockedReturns == NoSessionLive => ((handle = "blocked") ~> (handle # "blocked"))

\* --------------------------------------------------------------------- C18

\* The step is a policy evaluation that chose to retry.
RetryEvaluation == ReturnStep /\ evaluated' /\ pc' = "sleeping"

\* C18: sleep_duration starts as 10 seconds; a policy evaluation that chooses
\* to retry sets it to the delay of the policy and no other step changes it
\* (not a Session run that returns without an error, not a branch that stops
\* the Supervisor, not the sleep); every sleep lasts sleep_duration.
C18_StickySleepDuration ==
    /\ sleep_duration = DurationFromSecs(DefaultSleepSecs)
    /\ [][sleep_duration' =
            IF RetryEvaluation
            THEN DurationFromSecs(reconnect_config.d)
            ELSE sleep_duration]_vars
    /\ [][pc' = "sleeping" => sleeping_for' = sleep_duration']_vars
    /\ [](pc = "sleeping" => sleeping_for = sleep_duration)

\* A Session run of a later attempt has returned without an error, and the
\* Supervisor sleeps the delay an earlier policy evaluation stored, which is
\* not the default.
C18_Witness ==
    /\ pc = "sleeping"
    /\ result = Ok
    /\ attempts > 1
    /\ sleeping_for = DurationFromSecs(reconnect_config.d)
    /\ sleeping_for # DurationFromSecs(DefaultSleepSecs)

\* --------------------------------------------------------------------- C19

StopCase(res) ==
    /\ res.tag = "Err"
    /\ \/ res.e = "Halt"
       \/ reconnect_config = Never
       \/ reconnect_config.kind = "AfterFirstSuccess" /\ res.count = InitialConnect

\* C20: the Supervisor stops only in the step in which a Session run returns,
\* and exactly when it returned an error that is Halt, or an error under
\* Never, or an error with the count InitialConnect under
\* RetryAfterFirstSuccess; after every other return, also one without an
\* error under any policy, it sleeps, and the sleep ends in one more attempt;
\* it sleeps only after a Session run has returned.
C20_StopsOnlyOnError ==
    /\ [][(pc # "stopped" /\ pc' = "stopped") => ReturnStep]_vars
    /\ [][ReturnStep => (pc' = "stopped" <=> StopCase(result'))]_vars
    /\ [][ReturnStep => (pc' = "sleeping" <=> ~StopCase(result'))]_vars
    /\ [][SleepThenAttempt]_vars
    /\ [](pc = "sleeping" => result.tag \in {"Ok", "Err"})

\* Under Never a second attempt is in progress: the first Session run
\* returned without an error and the Supervisor slept.
C20_Witness ==
    /\ reconnect_config = Never
    /\ attempts = 2
    /\ connects = 1
    /\ pc = "handshake"

====
